---------------------------- MODULE Spec2Model ----------------------------
(***************************************************************************)
(* Strata frontend: the consumer side of the tensor-streaming engine.      *)
(*   - the zustand store (store.js): inferenceCache, isRunning, layerOrder, *)
(*     modelGraph, selectedLayerId                                          *)
(*   - App.jsx: the WebSocket handlers, the 100 ms batch flush and the      *)
(*     120 s inference timeout, handleLoadModel                             *)
(*   - InputPanel.jsx: runInference                                         *)
(*   - DetailPanel / Scene: resolution of a node to a cached record         *)
(* The Python backend (stream dispatcher) is not part of the sources; it is *)
(* modelled from the specification's section 4.6 and section 5.             *)
(*                                                                         *)
(* Strings are sequences of one-character strings, so that the regular     *)
(* expressions of the code (sanitize, cleanForMatch, includes, split) are   *)
(* computed character by character.                                         *)
(***************************************************************************)
EXTENDS Integers, Sequences, FiniteSets, TLC

(***************************************************************************)
(* Bounds of the model.                                                     *)
(***************************************************************************)
\* user commands in one behaviour: files chosen in LOAD MODEL plus runs started
MaxClicks == 3
\* records the backend emits in one behaviour, over all runs
MaxRecords == 3
\* hook-based runs in one behaviour
MaxHookRuns == 3
\* leaf computational submodules of the module tree
MaxLeaves == 3
\* operations of a serialized graph
MaxOps == 2
\* nodes of a model graph handed to detectInputType
MaxNodes == 2
\* nodes and edges of a graph handed to buildLayout
MaxLayoutNodes == 3
MaxEdges == 3
\* 'data' events of the backend's stdout during startup
MaxChunks == 2
\* rank of an exported tensor, and size of each of its dimensions
MaxRank == 3
MaxDim == 2

(***************************************************************************)
(* Characters and the character classes of the code's regular expressions. *)
(***************************************************************************)
Lower == {"a", "b", "c", "e", "l", "n", "o", "r", "v", "y"}
Upper == {"A", "B", "C"}
Digits == {"0", "1", "2"}
Alnum == Lower \cup Upper \cup Digits

ToLowerChar(c) ==
  CASE c = "A" -> "a"
    [] c = "B" -> "b"
    [] c = "C" -> "c"
    [] OTHER -> c

RECURSIVE MapChars(_, _)
\* s.replace(/[^a-zA-Z0-9_]/g, '_') and friends: one pass over the characters
MapChars(s, keepUnderscore) ==
  IF s = <<>> THEN <<>>
  ELSE LET c == Head(s)
           rest == MapChars(Tail(s), keepUnderscore)
       IN IF keepUnderscore
            THEN <<(IF c \in Alnum \cup {"_"} THEN c ELSE "_")>> \o rest
            ELSE IF c \in Alnum THEN <<ToLowerChar(c)>> \o rest ELSE rest

\* raw.replace(/[^a-zA-Z0-9_]/g, '_')
Sanitize(s) == MapChars(s, TRUE)

\* s?.replace(/[^a-zA-Z0-9]/g, '').toLowerCase() || ''
cleanForMatch(s) == MapChars(s, FALSE)

\* String.prototype.includes
Includes(s, t) ==
  \E i \in 0..(Len(s) - Len(t)) : SubSeq(s, i + 1, i + Len(t)) = t

RECURSIVE LastSegment(_)
\* name.split('/').pop()
LastSegment(s) ==
  IF \A i \in 1..Len(s) : s[i] # "/" THEN s
  ELSE LastSegment(Tail(s))

(***************************************************************************)
(* Records.  A LayerRecord as the consumer holds it: layer_id and name are *)
(* the payload's fields; run and n identify the runtime tensor (run that   *)
(* produced it, position in that run); recvd is the number of runs the     *)
(* consumer had started when the record arrived.  run = 0 is `undefined'.  *)
(***************************************************************************)
Undefined == [run |-> 0, n |-> 0, layer_id |-> <<>>, name |-> <<>>, recvd |-> 0]

(***************************************************************************)
(* A JavaScript object used as a map: a sequence of <<key, value>> entries *)
(* in property-enumeration order (array-index keys ascending first, then   *)
(* the other keys in insertion order).                                     *)
(***************************************************************************)
EmptyObj == <<>>

ObjKeys(o) == {o[i][1] : i \in 1..Len(o)}

ObjHas(o, k) == k \in ObjKeys(o)

\* o[k]
ObjGet(o, k) ==
  IF ObjHas(o, k)
    THEN LET i == CHOOSE j \in 1..Len(o) : o[j][1] = k IN o[i][2]
    ELSE Undefined

\* an enumeration of the values newest first
ObjValuesNewestFirst(o) == [i \in 1..Len(o) |-> o[Len(o) + 1 - i][2]]

\* Object.values(o)
ObjValues(o) == [i \in 1..Len(o) |-> o[i][2]]

\* a canonical array index: "0", or digits without a leading zero
IsArrayIndex(k) ==
  /\ k # <<>>
  /\ \A i \in 1..Len(k) : k[i] \in Digits
  /\ (Len(k) > 1 => k[1] # "0")

DigitVal(c) == CASE c = "0" -> 0 [] c = "1" -> 1 [] OTHER -> 2

RECURSIVE IndexVal(_)
IndexVal(k) ==
  IF k = <<>> THEN 0 ELSE 10 * IndexVal(SubSeq(k, 1, Len(k) - 1)) + DigitVal(k[Len(k)])

\* position at which a new key k is inserted into o
InsertPos(o, k) ==
  IF IsArrayIndex(k)
    THEN Cardinality({i \in 1..Len(o) :
                        IsArrayIndex(o[i][1]) /\ IndexVal(o[i][1]) < IndexVal(k)})
    ELSE Len(o)

\* o[k] = v
ObjSet(o, k, v) ==
  IF ObjHas(o, k)
    THEN [i \in 1..Len(o) |-> IF o[i][1] = k THEN <<k, v>> ELSE o[i]]
    ELSE LET p == InsertPos(o, k)
         IN SubSeq(o, 1, p) \o <<<<k, v>>>> \o SubSeq(o, p + 1, Len(o))

RECURSIVE ObjSpread(_, _)
\* { ...a, ...b }
ObjSpread(a, b) ==
  IF b = <<>> THEN a
  ELSE ObjSpread(ObjSet(a, b[1][1], b[1][2]), Tail(b))

(***************************************************************************)
(* The payloads of a run: layer_id and display name of each operation of   *)
(* the loaded model, in execution order.  The first and the third share a  *)
(* runtime key (a module called twice); the second has another runtime key *)
(* with the same sanitized form.                                           *)
(***************************************************************************)
IdDotted == <<"a", ".", "b">>
IdPlain == <<"a", "_", "b">>
NameConv == <<"C", "a">>

WireDotted == [layer_id |-> IdDotted, name |-> NameConv]
WirePlain == [layer_id |-> IdPlain, name |-> NameConv]

Ops == <<WireDotted, WirePlain, WireDotted>>

\* the key used when the payload has no layer_id: raw || 'layer'
LayerKey == <<"l", "a", "y", "e", "r">>

Runs == 1..MaxClicks
Loads == 1..MaxClicks

(***************************************************************************)
(* State.                                                                   *)
(***************************************************************************)
VARIABLES
  modelGraph,        \* store.modelGraph: 0 is null, else the number of the load that set it
  isRunning,         \* store.isRunning
  inferenceCache,    \* store.inferenceCache (a JS object)
  layerOrder,        \* store.layerOrder
  pending,           \* pendingRef.current (a JS object)
  flushTimer,        \* flushTimerRef.current is a live 100 ms timer
  inferenceTimeout,  \* inferenceTimeoutRef.current is a live 120 s timer
  wsOpen,            \* the WebSocket is open
  ws,                \* frames in flight from the backend to ws.onmessage, oldest first
  req,               \* per run: the state of its POST /run-inference
  stream,            \* per run: the frames the dispatcher has emitted, oldest first
  load,              \* per load: the state of its POST /load-model
  alert,             \* the modal alert() on screen ("none": no alert); it blocks the renderer
  runs,              \* number of runs runInference has started
  received,          \* history: the records ws.onmessage has accepted, oldest first
  everVisible,       \* history: identities <<run, n>> of the records merged into inferenceCache
  sentinelSeen,      \* history: the runs whose sentinel ws.onmessage has handled
  timeoutRun,        \* history: the run whose record armed the live 120 s timer (0: none)
  selectedLayerId,   \* store.selectedLayerId (<<>> is null)
  storeOp,           \* history: the last cache call made directly on the store (CacheSpec)
  callbacks,         \* engine: the registered capture callbacks, <<run, leaf>>
  forward,           \* engine: "running" while a forward computation is in progress
  hookRun,           \* engine: number of hook-based runs started
  executed,          \* engine: leaves the forward computation in progress has executed
  fired,             \* engine history: <<callback, run>> for every callback firing
  onnxGraph,         \* engine: the serialized graph handed to the Graph Augmenter
  augmented,         \* engine: what the Graph Augmenter returned for onnxGraph
  tensor,            \* engine: the tensor of the record handed to exportRecord
  exportLines,       \* engine: the lines exportRecord wrote for tensor
  panelNodes,        \* InputPanel: modelGraph?.nodes
  inputType,         \* InputPanel: the memoized detectInputType(modelGraph?.nodes)
  layoutGraph,       \* GraphView: the arguments nodes and edges of buildLayout
  queue,             \* buildLayout: queue
  visited,           \* buildLayout: visited
  nodeMap,           \* buildLayout: nodeMap, as the depth of each node id
  positions,         \* buildLayout: positions, in units of 1/20
  layoutPc,          \* buildLayout: where the call is ("idle", "start", "bfs", "done")
  shellEnv,          \* main.js: what the machine offers (python, venv, pip, spawn)
  shellPc,           \* main.js: where the startup is
  windowVisible,     \* main.js: mainWindow has been shown (it is created with show: false)
  startupTimer,      \* main.js: the 30 s timer of startBackend is armed
  backendProcess,    \* main.js: the state of the spawned backend process
  stdoutChunks       \* main.js: number of 'data' events of backendProcess.stdout so far

vars ==
  << modelGraph, isRunning, inferenceCache, layerOrder, pending, flushTimer,
     inferenceTimeout, wsOpen, ws, req, stream, load, alert, runs,
     received, everVisible, sentinelSeen, timeoutRun, selectedLayerId, storeOp,
     callbacks, forward, hookRun, executed, fired,
     onnxGraph, augmented, tensor, exportLines, panelNodes, inputType,
     layoutGraph, queue, visited, nodeMap, positions, layoutPc,
     shellEnv, shellPc, windowVisible, startupTimer, backendProcess, stdoutChunks >>

storeVars == << modelGraph, isRunning, inferenceCache, layerOrder >>
refVars == << pending, flushTimer, inferenceTimeout, timeoutRun >>
netVars == << wsOpen, ws, req, stream, load >>
histVars == << received, everVisible, sentinelSeen >>
\* the hook-based Execution Adapter of the engine
hookVars == << callbacks, forward, hookRun, executed, fired >>
\* state that the handlers of App and InputPanel never touch
\* the Graph Augmenter and the Persistence Layer of the engine
augmentVars == << onnxGraph, augmented >>
exportVars == << tensor, exportLines >>
\* the input type the InputPanel derives from the graph's nodes
panelVars == << panelNodes, inputType >>
\* the call of buildLayout in GraphView
layoutVars == << layoutGraph, queue, visited, nodeMap, positions, layoutPc >>
\* the startup of the desktop shell
shellVars == << shellEnv, shellPc, windowVisible, startupTimer, backendProcess, stdoutChunks >>
viewVars ==
  << selectedLayerId, storeOp, hookVars, augmentVars, exportVars, panelVars, layoutVars,
     shellVars >>

\* store.js 5: selectedLayerId: null
NoSelection == <<>>

\* no call of the cache API yet; put: the entries of a put, had: the keys held
\* before a clear
NoOp == [kind |-> "none", put |-> <<>>, had |-> {}]

\* no run yet: nothing registered, no forward computation
HookInit ==
  /\ callbacks = {}
  /\ forward = "idle"
  /\ hookRun = 0
  /\ executed = 0
  /\ fired = {}

\* a value that is not there yet (nothing returned, nothing written)
NotYet == "not yet"

\* the Graph Augmenter has returned nothing
NoAugment == [status |-> NotYet, output |-> <<>>, exposed |-> <<>>, declaredOutputShape |-> {}]

\* no graph has been handed to the Graph Augmenter
AugmentIdle ==
  /\ onnxGraph = NotYet
  /\ augmented = NoAugment

\* no record has been handed to exportRecord
ExportIdle ==
  /\ tensor = NotYet
  /\ exportLines = <<>>

\* modelGraph?.nodes of a graph that is null, or that has no nodes property
NoNodes == [kind |-> "undefined", items |-> <<>>]

\* InputPanel is not rendered
PanelIdle ==
  /\ panelNodes = NoNodes
  /\ inputType = NotYet

\* the frontend after construction: store.js 3-11, the refs of App.jsx
AppInit ==
  /\ modelGraph = 0
  /\ isRunning = FALSE
  /\ inferenceCache = EmptyObj
  /\ layerOrder = <<>>
  /\ pending = EmptyObj
  /\ flushTimer = FALSE
  /\ inferenceTimeout = FALSE
  /\ wsOpen = TRUE
  /\ ws = <<>>
  /\ req = [r \in Runs |-> "none"]
  /\ stream = [r \in Runs |-> <<>>]
  /\ load = [l \in Loads |-> "none"]
  /\ alert = "none"
  /\ runs = 0
  /\ received = <<>>
  /\ everVisible = {}
  /\ sentinelSeen = {}
  /\ timeoutRun = 0
  /\ selectedLayerId = NoSelection
  /\ storeOp = NoOp

\* buildLayout is not being called
LayoutIdle ==
  /\ layoutGraph = [nodes |-> <<>>, edges |-> <<>>]
  /\ queue = <<>>
  /\ visited = {}
  /\ nodeMap = [id \in {} |-> 0]
  /\ positions = [id \in {} |-> <<0, 0, 0>>]
  /\ layoutPc = "idle"

\* the desktop shell is up: its startup is not looked at
ShellIdle ==
  /\ shellEnv = [python |-> TRUE, venvExists |-> TRUE, venvCreated |-> TRUE,
                 pipOk |-> TRUE, spawnOk |-> TRUE]
  /\ shellPc = "idle"
  /\ windowVisible = TRUE
  /\ startupTimer = FALSE
  /\ backendProcess = "alive"
  /\ stdoutChunks = 0

Init ==
  /\ AppInit
  /\ HookInit
  /\ AugmentIdle
  /\ ExportIdle
  /\ PanelIdle
  /\ LayoutIdle
  /\ ShellIdle

(***************************************************************************)
(* store.js                                                                 *)
(***************************************************************************)
\* a store whose addToCache keeps an entry that is already there
addToCacheIfAbsent(cache, key, record) ==
  IF ObjHas(cache, key) THEN cache ELSE ObjSet(cache, key, record)

\* addToCache: { ...state.inferenceCache, [key]: record }
addToCache(cache, key, record) == ObjSet(cache, key, record)

\* a store whose batch merge lets the existing entries win: { ...batch, ...state.inferenceCache }
addToCacheBatchOldWins(cache, batch) == ObjSpread(batch, cache)

\* addToCacheBatch: { ...state.inferenceCache, ...batch }
addToCacheBatch(cache, batch) == ObjSpread(cache, batch)

\* clearCache: inferenceCache: {}
clearCache == EmptyObj

\* identities of the records held by a JS object
Idents(o) == {<<o[i][2].run, o[i][2].n>> : i \in 1..Len(o)}

(***************************************************************************)
(* App.jsx: flushPending.  Gives the new inferenceCache; the caller sets    *)
(* pendingRef.current = {} and flushTimerRef.current = null.                *)
(***************************************************************************)
\* a flush that merges only the newest entry of the batch and drops the rest
flushPendingNewestOnly(cache, pend) ==
  IF Len(pend) > 0 THEN addToCacheBatch(cache, <<pend[Len(pend)]>>) ELSE cache

flushPending(cache, pend) ==
  LET batch == ObjSpread(EmptyObj, pend)
  IN IF Len(batch) > 0 THEN addToCacheBatch(cache, batch) ELSE cache

\* a timer callback that empties the pending batch without merging it
FlushTimerFireDropsBatch ==
  /\ alert = "none"
  /\ flushTimer
  /\ pending' = EmptyObj
  /\ flushTimer' = FALSE
  /\ UNCHANGED << storeVars, inferenceTimeout, timeoutRun, netVars, alert, runs, histVars >>
  /\ UNCHANGED viewVars

\* the flush timer's callback (App.jsx 76-78)
FlushTimerFire ==
  /\ alert = "none"
  /\ flushTimer
  /\ inferenceCache' = flushPending(inferenceCache, pending)
  /\ everVisible' = everVisible \cup Idents(inferenceCache')
  /\ pending' = EmptyObj
  /\ flushTimer' = FALSE
  /\ UNCHANGED << modelGraph, isRunning, layerOrder, inferenceTimeout, timeoutRun,
                  netVars, alert, runs, received, sentinelSeen >>
  /\ UNCHANGED viewVars

(***************************************************************************)
(* App.jsx: ws.onmessage.  A frame is [type, run, n, layer_id, name] with   *)
(* type "rec" (a record payload) or "null" (the sentinel).                  *)
(***************************************************************************)
Frame(t, r, i, w) == [type |-> t, run |-> r, n |-> i, layer_id |-> w.layer_id, name |-> w.name]

NoLayer == [layer_id |-> <<>>, name |-> <<>>]

\* the record object held by the consumer for a "rec" frame
RecordOf(f, epoch) ==
  [run |-> f.run, n |-> f.n, layer_id |-> f.layer_id, name |-> f.name, recvd |-> epoch]

\* App.jsx 61: the key of the first write, raw || 'layer'
RawKey(data) == IF data.layer_id # <<>> THEN data.layer_id ELSE LayerKey

\* App.jsx 59-62: pendingRef.current after the two writes for payload data
pendingAfterRecord(pend, data) ==
  LET raw == data.layer_id
      sanitized == Sanitize(raw)
      p1 == ObjSet(pend, RawKey(data), data)
  IN IF sanitized # <<>> THEN ObjSet(p1, sanitized, data) ELSE p1

\* a sentinel handler that leaves the 120 s timer armed
timeoutKeptAfterSentinel == TRUE

\* App.jsx 51-54: the sentinel clears the 120 s timer
timeoutAfterSentinel == FALSE

\* App.jsx 50-58: data === null
WsSentinel ==
  /\ alert = "none"
  /\ wsOpen /\ ws # <<>> /\ Head(ws).type = "null"
  /\ ws' = Tail(ws)
  /\ inferenceTimeout' = (inferenceTimeout /\ timeoutAfterSentinel)
  /\ timeoutRun' = IF inferenceTimeout' THEN timeoutRun ELSE 0
  /\ isRunning' = FALSE
  /\ inferenceCache' = flushPending(inferenceCache, pending)
  /\ everVisible' = everVisible \cup Idents(inferenceCache')
  /\ pending' = EmptyObj
  /\ flushTimer' = FALSE
  /\ sentinelSeen' = sentinelSeen \cup {Head(ws).run}
  /\ UNCHANGED << modelGraph, layerOrder, wsOpen, req, stream, load,
                  alert, runs, received >>
  /\ UNCHANGED viewVars

\* App.jsx 59-79: a record payload
WsRecord ==
  /\ alert = "none"
  /\ wsOpen /\ ws # <<>> /\ Head(ws).type = "rec"
  /\ LET data == RecordOf(Head(ws), runs)
     IN /\ pending' = pendingAfterRecord(pending, data)
        /\ received' = Append(received, data)
        /\ timeoutRun' = IF inferenceTimeout THEN timeoutRun ELSE data.run
  /\ ws' = Tail(ws)
  /\ inferenceTimeout' = TRUE
  /\ flushTimer' = TRUE
  /\ UNCHANGED << storeVars, wsOpen, req, stream, load, alert, runs,
                  everVisible, sentinelSeen >>
  /\ UNCHANGED viewVars

\* the messages ws.onmessage rejects: text that JSON.parse cannot parse, and
\* a payload whose layer_id is not a string (here the number 1)
MalformedKinds == {"unparsable", "layer_id_not_string"}

\* a handler that writes pendingRef.current[raw || 'layer'] before it
\* sanitizes raw: the payload with layer_id 1 is stored under the key '1'
pendingAfterThrowLateSanitize(pend, kind) ==
  IF kind = "layer_id_not_string"
    THEN ObjSet(pend, <<"1">>, [Undefined EXCEPT !.layer_id = <<"1">>])
    ELSE pend

\* App.jsx 49, 59-60: JSON.parse throws, or raw.replace throws (a number has
\* no replace method), in both cases before the writes of lines 61-62
pendingAfterThrow(pend, kind) == pend

\* App.jsx 47-49, 59-60, 80-82: a message arrives for which JSON.parse or
\* raw.replace throws; catch (_) { setRunning(false) }
WsMalformed(kind) ==
  /\ alert = "none"
  /\ wsOpen
  /\ pending' = pendingAfterThrow(pending, kind)
  /\ isRunning' = FALSE
  /\ UNCHANGED << modelGraph, inferenceCache, layerOrder, flushTimer,
                  inferenceTimeout, timeoutRun, netVars, alert, runs, histVars >>
  /\ UNCHANGED viewVars

\* App.jsx 85: ws.onclose; the frames still in flight are lost
WsClose ==
  /\ alert = "none"
  /\ wsOpen
  /\ wsOpen' = FALSE
  /\ ws' = <<>>
  /\ isRunning' = FALSE
  /\ UNCHANGED << modelGraph, inferenceCache, layerOrder, refVars, req, stream,
                  load, alert, runs, histVars >>
  /\ UNCHANGED viewVars

\* App.jsx 86: ws.onerror; the browser fails the connection and fires close after
\* error, so nothing is delivered afterwards
WsError ==
  /\ alert = "none"
  /\ wsOpen
  /\ isRunning' = FALSE
  /\ wsOpen' = FALSE
  /\ ws' = <<>>
  /\ UNCHANGED << modelGraph, inferenceCache, layerOrder, refVars, req, stream,
                  load, alert, runs, histVars >>
  /\ UNCHANGED viewVars

\* App.jsx 69-73: the 120 s timer's callback
TimeoutFire ==
  /\ alert = "none"
  /\ inferenceTimeout
  /\ isRunning' = FALSE
  /\ inferenceTimeout' = FALSE
  /\ timeoutRun' = 0
  /\ alert' = "timeout"
  /\ UNCHANGED << modelGraph, inferenceCache, layerOrder, pending, flushTimer,
                  netVars, runs, histVars >>
  /\ UNCHANGED viewVars

(***************************************************************************)
(* InputPanel.jsx: runInference.                                            *)
(***************************************************************************)
\* const canRun = modelGraph && !isRunning
canRun == modelGraph # 0 /\ ~isRunning

\* commands the user has given so far
Clicks == runs + Cardinality({l \in Loads : load[l] # "none"})

\* a runInference that sets the flag and clears the cache before it looks at
\* the input
RunInferenceClearsFirst(inputEmpty) ==
  /\ alert = "none"
  /\ Clicks < MaxClicks
  /\ IF ~canRun
       THEN UNCHANGED vars
       ELSE IF inputEmpty
         THEN /\ alert' = "no_input"
              /\ isRunning' = TRUE
              /\ inferenceCache' = clearCache
              /\ layerOrder' = <<>>
              /\ UNCHANGED << modelGraph, refVars, netVars, runs, histVars >>
         ELSE /\ isRunning' = TRUE
              /\ inferenceCache' = clearCache
              /\ layerOrder' = <<>>
              /\ runs' = runs + 1
              /\ req' = [req EXCEPT ![runs + 1] = "pending"]
              /\ UNCHANGED << modelGraph, refVars, wsOpen, ws, stream, load,
                              alert, histVars >>
  /\ UNCHANGED viewVars

RunInference(inputEmpty) ==
  /\ alert = "none"
  /\ Clicks < MaxClicks
  /\ IF ~canRun
       THEN UNCHANGED vars
       ELSE IF inputEmpty
         THEN /\ alert' = "no_input"
              /\ UNCHANGED << storeVars, refVars, netVars, runs, histVars >>
         ELSE /\ isRunning' = TRUE
              /\ inferenceCache' = clearCache
              /\ layerOrder' = <<>>
              /\ runs' = runs + 1
              /\ req' = [req EXCEPT ![runs + 1] = "pending"]
              /\ UNCHANGED << modelGraph, refVars, wsOpen, ws, stream, load,
                              alert, histVars >>
  /\ UNCHANGED viewVars

\* layer_ids of the response: the ids of the records the run emitted
LayerIdsOf(frames) ==
  LET recs == SelectSeq(frames, LAMBDA f : f.type = "rec")
  IN [i \in 1..Len(recs) |-> recs[i].layer_id]

\* InputPanel.jsx 73-84: the fetch settles.  On res.ok: setLayerOrder, then
\* finally setRunning(false).  Otherwise the catch block shows the alert, and
\* the finally block runs once the alert is dismissed.
HttpSettle(r) ==
  /\ alert = "none"
  /\ req[r] \in {"ok", "err"}
  /\ req' = [req EXCEPT ![r] = IF req[r] = "ok" THEN "settled" ELSE "failed"]
  /\ IF req[r] = "ok"
       THEN /\ layerOrder' = LayerIdsOf(stream[r])
            /\ isRunning' = FALSE
            /\ UNCHANGED alert
       ELSE /\ alert' = "inference_failed"
            /\ UNCHANGED << layerOrder, isRunning >>
  /\ UNCHANGED << modelGraph, inferenceCache, refVars, wsOpen, ws, stream, load,
                  runs, histVars >>
  /\ UNCHANGED viewVars

\* a runInference without its finally block
DismissAlertNoFinally ==
  /\ alert # "none"
  /\ alert' = "none"
  /\ UNCHANGED << storeVars, refVars, netVars, runs, histVars >>
  /\ UNCHANGED viewVars

\* the user dismisses the alert; the handler that showed it resumes
\* (InputPanel.jsx 82-84: finally setRunning(false))
DismissAlert ==
  /\ alert # "none"
  /\ alert' = "none"
  /\ isRunning' = IF alert = "inference_failed" THEN FALSE ELSE isRunning
  /\ UNCHANGED << modelGraph, inferenceCache, layerOrder, refVars, netVars, runs,
                  histVars >>
  /\ UNCHANGED viewVars

(***************************************************************************)
(* App.jsx: handleLoadModel.                                                *)
(***************************************************************************)
\* the file dialog is cancelled: return before any change
LoadModelCancel ==
  /\ alert = "none"
  /\ UNCHANGED vars

\* a file is chosen: clearCache(); setLayerOrder([]); POST /load-model
LoadModelChoose(l) ==
  /\ alert = "none"
  /\ Clicks < MaxClicks
  /\ load[l] = "none"
  /\ \A k \in 1..(l - 1) : load[k] # "none"
  /\ load' = [load EXCEPT ![l] = "pending"]
  /\ inferenceCache' = clearCache
  /\ layerOrder' = <<>>
  /\ UNCHANGED << modelGraph, isRunning, refVars, wsOpen, ws, req, stream,
                  alert, runs, histVars >>
  /\ UNCHANGED viewVars

\* App.jsx 113-115: setModelGraph(graph)
LoadModelOk(l) ==
  /\ alert = "none"
  /\ load[l] = "pending"
  /\ load' = [load EXCEPT ![l] = "done"]
  /\ modelGraph' = l
  /\ UNCHANGED << isRunning, inferenceCache, layerOrder, refVars, wsOpen, ws, req,
                  stream, alert, runs, histVars >>
  /\ UNCHANGED viewVars

\* a handleLoadModel that drops the loaded model when the load fails
LoadModelFailDropsModel(l) ==
  /\ alert = "none"
  /\ load[l] = "pending"
  /\ load' = [load EXCEPT ![l] = "done"]
  /\ alert' = "load_failed"
  /\ modelGraph' = 0
  /\ UNCHANGED << isRunning, inferenceCache, layerOrder, refVars, wsOpen, ws, req,
                  stream, runs, histVars >>
  /\ UNCHANGED viewVars

\* App.jsx 107-112, 116-119: !res.ok or the fetch throws
LoadModelFail(l) ==
  /\ alert = "none"
  /\ load[l] = "pending"
  /\ load' = [load EXCEPT ![l] = "done"]
  /\ alert' = "load_failed"
  /\ UNCHANGED << storeVars, refVars, wsOpen, ws, req, stream, runs,
                  histVars >>
  /\ UNCHANGED viewVars

(***************************************************************************)
(* The backend's stream dispatcher and run orchestrator (specification      *)
(* sections 4.2, 4.6 and 5): requests are served one at a time in arrival   *)
(* order; a run emits its records, then one sentinel, then answers the      *)
(* request; a frame emitted while the socket is closed is lost.             *)
(***************************************************************************)
Emit(f) == IF wsOpen THEN Append(ws, f) ELSE ws

\* the request being served: the oldest one not yet answered
Serving(r) ==
  /\ req[r] = "pending"
  /\ \A q \in 1..(r - 1) : req[q] # "pending"

RecsOf(frames) == SelectSeq(frames, LAMBDA f : f.type = "rec")

RECURSIVE TotalRecords(_, _)
\* the number of records runs 1..r have emitted
TotalRecords(st, r) ==
  IF r = 0 THEN 0 ELSE Len(RecsOf(st[r])) + TotalRecords(st, r - 1)

\* one operation of the loaded model executes and its record is emitted
BackendEmitRecord(r) ==
  /\ Serving(r)
  /\ Len(stream[r]) < Len(Ops)
  /\ TotalRecords(stream, MaxClicks) < MaxRecords
  /\ LET i == Len(stream[r]) + 1
         f == Frame("rec", r, i, Ops[i])
     IN /\ stream' = [stream EXCEPT ![r] = Append(@, f)]
        /\ ws' = Emit(f)
  /\ UNCHANGED << storeVars, refVars, wsOpen, req, load, alert, runs, histVars >>
  /\ UNCHANGED viewVars

\* a dispatcher that answers a failed run without emitting the sentinel
BackendFinishSilentFailure(r, ok) ==
  /\ Serving(r)
  /\ ok => Len(stream[r]) = Len(Ops)
  /\ stream' = [stream EXCEPT ![r] = IF ok THEN Append(@, Frame("null", r, 0, NoLayer)) ELSE @]
  /\ ws' = IF ok THEN Emit(Frame("null", r, 0, NoLayer)) ELSE ws
  /\ req' = [req EXCEPT ![r] = IF ok THEN "ok" ELSE "err"]
  /\ UNCHANGED << storeVars, refVars, wsOpen, load, alert, runs, histVars >>
  /\ UNCHANGED viewVars

\* the run ends: the sentinel is emitted and the request is answered.  On
\* success (200 with layer_ids) after the last record; on a failure after the
\* records already emitted (ExecutionError), or at once with zero records
\* (InputBindingError)
BackendFinish(r, ok) ==
  /\ Serving(r)
  /\ ok => Len(stream[r]) = Len(Ops)
  /\ stream' = [stream EXCEPT ![r] = Append(@, Frame("null", r, 0, NoLayer))]
  /\ ws' = Emit(Frame("null", r, 0, NoLayer))
  /\ req' = [req EXCEPT ![r] = IF ok THEN "ok" ELSE "err"]
  /\ UNCHANGED << storeVars, refVars, wsOpen, load, alert, runs, histVars >>
  /\ UNCHANGED viewVars

(***************************************************************************)
(* The specification.                                                       *)
(***************************************************************************)
Next ==
  \/ \E e \in BOOLEAN : RunInference(e)
  \/ \E r \in Runs : HttpSettle(r)
  \/ WsSentinel
  \/ WsRecord
  \/ \E kind \in MalformedKinds : WsMalformed(kind)
  \/ WsClose
  \/ WsError
  \/ FlushTimerFire
  \/ TimeoutFire
  \/ LoadModelCancel
  \/ \E l \in Loads : LoadModelChoose(l)
  \/ \E l \in Loads : LoadModelOk(l)
  \/ \E l \in Loads : LoadModelFail(l)
  \/ \E r \in Runs : BackendEmitRecord(r)
  \/ \E r \in Runs, ok \in BOOLEAN : BackendFinish(r, ok)
  \/ DismissAlert

Spec == Init /\ [][Next]_vars

\* Timers fire, frames and responses in flight are delivered, and the user
\* dismisses an alert; neither the backend nor the user's commands are forced.
\* The user does not keep the renderer blocked for ever by asking again and
\* again for a run with an empty input.
Fairness ==
  /\ <>[](alert # "no_input")
  /\ WF_vars(TimeoutFire)
  /\ WF_vars(FlushTimerFire)
  /\ WF_vars(WsSentinel)
  /\ WF_vars(WsRecord)
  /\ WF_vars(DismissAlert)
  /\ \A r \in Runs : WF_vars(HttpSettle(r))

FairSpec == Spec /\ Fairness

(***************************************************************************)
(* Properties.                                                              *)
(***************************************************************************)
\* the requests whose fetch the consumer is still awaiting
Outstanding == {r \in Runs : req[r] \in {"pending", "ok", "err"}}

\* the records held by a JS object
RecordsIn(o) == {o[i][2] : i \in 1..Len(o)}

\* C1: at most one /run-inference request is outstanding at a time, and
\* inferenceCache never holds records of two runs.
C1_OneRunInFlight ==
  /\ Cardinality(Outstanding) <= 1
  /\ \A a, b \in RecordsIn(inferenceCache) : a.run = b.run

\* C2: once run N has started, inferenceCache holds no record that was
\* received before run N started.
C2_NoRecordOutlivesRun ==
  \A a \in RecordsIn(inferenceCache) : a.recvd = runs

\* the sentinels of a stream
SentinelsOf(frames) == SelectSeq(frames, LAMBDA f : f.type = "null")

\* C3: the stream of a run carries at most one sentinel, which is then its
\* last frame; a run that has ended carries exactly one; a run that failed
\* without emitting a record carries the sentinel alone.
C3_OneTerminalSentinel ==
  \A r \in Runs :
    /\ Len(SentinelsOf(stream[r])) <= 1
    /\ \A i \in 1..Len(stream[r]) :
         stream[r][i].type = "null" => i = Len(stream[r])
    /\ req[r] \in {"ok", "err", "settled"} => Len(SentinelsOf(stream[r])) = 1
    /\ req[r] = "ok" => Len(RecsOf(stream[r])) = Len(Ops)
    /\ req[r] = "none" => stream[r] = <<>>

\* C3 witnesses: a successful run has ended with all its records before the
\* sentinel, and a run has failed with the sentinel as its only frame.
C3_Witness ==
  \E r, q \in Runs :
    /\ req[r] = "ok" /\ Len(stream[r]) = Len(Ops) + 1
    /\ req[q] \in {"err", "settled"} /\ Len(stream[q]) = 1

\* C4: a started run whose sentinel never arrives is eventually marked idle by
\* the consumer, whatever the backend does (also when it sends nothing): from
\* every state in which run r is running, a state is reached in which its
\* sentinel has been handled or isRunning is false.
C4_TimeoutMarksIdle ==
  \A r \in Runs :
    (runs = r /\ isRunning /\ req[r] = "pending") ~> (r \in sentinelSeen \/ ~isRunning)

\* the keys under which ws.onmessage stores a record
KeysOf(data) == ObjKeys(pendingAfterRecord(EmptyObj, data))

Ident(a) == <<a.run, a.n>>

\* every key of the i-th received record was written again by a later record
Overwritten(i) ==
  \A k \in KeysOf(received[i]) :
    \E j \in (i + 1)..Len(received) : k \in KeysOf(received[j])

\* a step in which ws.onmessage handles the sentinel
SentinelStep ==
  /\ wsOpen /\ wsOpen'
  /\ ws # <<>> /\ Head(ws).type = "null" /\ ws' = Tail(ws)

\* a step in which the 120 s timer's callback shows its alert
TimeoutAlertStep == alert = "none" /\ alert' = "timeout"

\* what every sentinel leaves behind: idle, nothing pending, no timer
Finalised ==
  /\ ~isRunning
  /\ pending = EmptyObj
  /\ ~flushTimer
  /\ ~inferenceTimeout

\* C5 (as claimed): after the sentinel is handled the run is finalised and
\* every record received in the run has been merged into inferenceCache; the
\* timeout alert never fires for a run whose sentinel was received.
C5_SentinelFinalisesAll ==
  [][ /\ SentinelStep =>
           /\ Finalised'
           /\ \A i \in 1..Len(received) :
                received[i].run = Head(ws).run => Ident(received[i]) \in everVisible'
      /\ TimeoutAlertStep => timeoutRun \notin sentinelSeen ]_vars

\* C5 (amended): after the sentinel is handled the run is finalised, every
\* entry of the pending batch is in inferenceCache, and every record received
\* in the run has been merged into inferenceCache unless later records took
\* over all of its keys; the timeout alert never fires for a run whose
\* sentinel was received.
C5_SentinelFinalises ==
  [][ /\ SentinelStep =>
           /\ Finalised'
           /\ \A k \in ObjKeys(pending) : ObjGet(inferenceCache', k) = ObjGet(pending, k)
           /\ \A i \in 1..Len(received) :
                received[i].run = Head(ws).run =>
                  Ident(received[i]) \in everVisible' \/ Overwritten(i)
      /\ TimeoutAlertStep => timeoutRun \notin sentinelSeen ]_vars

\* C5 witness: the sentinel of run 1 has been handled after records of run 1
\* were received, and the run is finalised with records in the cache.
C5_Witness ==
  /\ 1 \in sentinelSeen
  /\ \E i \in 1..Len(received) : received[i].run = 1
  /\ Finalised
  /\ \E a \in RecordsIn(inferenceCache) : a.run = 1

\* pairs of positions in the receive history: an earlier and a later record
\* of one run
EarlierLater ==
  {p \in (1..Len(received)) \X (1..Len(received)) :
     p[1] < p[2] /\ received[p[1]].run = received[p[2]].run}

\* C6 (as claimed): if A is received before B in the same run, there is no
\* state in which B is in inferenceCache while A has not been made visible.
C6_FifoVisibility ==
  \A p \in EarlierLater :
    Ident(received[p[2]]) \in Idents(inferenceCache)
      => Ident(received[p[1]]) \in everVisible

\* C6 (amended): if A is received before B in the same run, there is no state
\* in which B is in inferenceCache while A still waits in the pending batch;
\* A has then been made visible, unless later records took over all of A's
\* keys before A's batch was flushed.
C6_FifoBatches ==
  \A p \in EarlierLater :
    Ident(received[p[2]]) \in Idents(inferenceCache)
      => /\ Ident(received[p[1]]) \notin Idents(pending)
         /\ Ident(received[p[1]]) \in everVisible \/ Overwritten(p[1])

\* C6 witness: B is in the cache and the earlier A of the same run, not
\* overwritten, has been made visible.
C6_Witness ==
  \E p \in EarlierLater :
    /\ Ident(received[p[2]]) \in Idents(inferenceCache)
    /\ Ident(received[p[1]]) \in everVisible
    /\ ~Overwritten(p[1])

\* the entries of the pending batch and of the cache
Entries == {pending[i] : i \in 1..Len(pending)} \cup
           {inferenceCache[i] : i \in 1..Len(inferenceCache)}

\* C7: for two records of one run with different raw layer_ids, storing the
\* later one never replaces the entry found under the earlier one's raw key.
C7_RawKeyNotConflated ==
  \A p \in EarlierLater :
    received[p[1]].layer_id # received[p[2]].layer_id
      => \A e \in Entries : e[1] = RawKey(received[p[1]]) => e[2] # received[p[2]]

\* the latest received record stored under key k
LatestWith(k) ==
  LET js == {j \in 1..Len(received) : k \in KeysOf(received[j])}
  IN received[CHOOSE j \in js : \A i \in js : i <= j]

\* every key maps to the latest record received under it
LatestWins ==
  /\ \A k \in ObjKeys(pending) : ObjGet(pending, k) = LatestWith(k)
  /\ \A k \in ObjKeys(inferenceCache) \ ObjKeys(pending) :
       ObjGet(inferenceCache, k) = LatestWith(k)

\* C9: a key written twice, in one batch or in two, maps to the later-received
\* record; a write never fails and leaves every other key's mapping alone.
C9_LastWriteWins ==
  /\ []LatestWins
  /\ [][
      /\ received' # received =>
           LET data == received'[Len(received')]
           IN /\ \A k \in KeysOf(data) : ObjGet(pending', k) = data
              /\ \A k \in ObjKeys(pending) \ KeysOf(data) :
                   ObjGet(pending', k) = ObjGet(pending, k)
              /\ inferenceCache' = inferenceCache
      /\ (pending # EmptyObj /\ pending' = EmptyObj) =>
           /\ \A k \in ObjKeys(pending) : ObjGet(inferenceCache', k) = ObjGet(pending, k)
           /\ \A k \in ObjKeys(inferenceCache) \ ObjKeys(pending) :
                ObjGet(inferenceCache', k) = ObjGet(inferenceCache, k) ]_vars

\* C9 witness: a key of the cache was written by two records, once in an
\* earlier batch (that record was visible) and once in the same batch, and
\* maps to the latest.
C9_Witness ==
  \E i, j, l \in 1..Len(received) :
    /\ i < j /\ j < l
    /\ Ident(received[i]) \in everVisible
    /\ Ident(received[j]) \notin everVisible
    /\ \E k \in KeysOf(received[i]) \cap KeysOf(received[j]) \cap KeysOf(received[l]) :
         ObjGet(inferenceCache, k) = received[l]

(***************************************************************************)
(* The cache store and the resolution of a graph node to a record, on      *)
(* their own: the store's cache API is called directly, with a model       *)
(* loaded, and the views resolve the nodes against the resulting cache.    *)
(***************************************************************************)
\* nodes of the loaded graph (modelGraph.nodes): id and name
NodeDotted == [id |-> IdDotted, name |-> <<"l", "/", "C", "a">>]
NodeShort == [id |-> <<"c">>, name |-> <<"c">>]
NodeLong == [id |-> <<"b">>, name |-> <<"C", "a", "b">>]
NodeBare == [id |-> <<"e">>, name |-> <<"l", "/">>]

\* OperationNode id "conv_12", with a display name of its own
NodeConv == [id |-> <<"c", "o", "n", "v", "_", "1", "2">>, name |-> <<"B">>]
GraphNodes == {NodeDotted, NodeShort, NodeLong, NodeBare, NodeConv}
NodesOf(graph) == IF graph = 0 THEN {} ELSE GraphNodes
NodeIds == {n.id : n \in GraphNodes}

\* payloads stored through the cache API
\* runtime key "Conv_12"; the record's name is the original output name
IdConv == <<"C", "o", "n", "v", "_", "1", "2">>
WireConv == [layer_id |-> IdConv, name |-> IdConv]
StoreWires == <<WireDotted, NoLayer, WireConv>>
StoreRecords == {RecordOf(Frame("rec", 1, i, StoreWires[i]), 0) : i \in 1..Len(StoreWires)}
StoreKeys == {IdDotted, IdPlain}

\* the batches ws.onmessage builds from one or two records
StoreBatches ==
  {pendingAfterRecord(EmptyObj, r) : r \in StoreRecords} \cup
  {pendingAfterRecord(pendingAfterRecord(EmptyObj, r[1]), r[2]) : r \in StoreRecords \X StoreRecords}

\* a resolution whose name rule matches when either string contains the other
resolveRecordEitherWay(id, name, cache) ==
  IF ObjHas(cache, id) THEN ObjGet(cache, id)
  ELSE IF ObjHas(cache, Sanitize(id)) THEN ObjGet(cache, Sanitize(id))
  ELSE LET nClean == cleanForMatch(LastSegment(name))
           vals == ObjValues(cache)
           hits == {i \in 1..Len(vals) :
                      LET rClean == cleanForMatch(vals[i].name)
                      IN Includes(rClean, nClean) \/ Includes(nClean, rClean)}
       IN IF hits = {} THEN Undefined
          ELSE vals[CHOOSE i \in hits : \A j \in hits : i <= j]

\* Scene: the record shown for a node with this id and name
resolveRecord(id, name, cache) ==
  IF ObjHas(cache, id) THEN ObjGet(cache, id)
  ELSE IF ObjHas(cache, Sanitize(id)) THEN ObjGet(cache, Sanitize(id))
  ELSE LET nClean == cleanForMatch(LastSegment(name))
           vals == ObjValues(cache)
           hits == {i \in 1..Len(vals) :
                      LET rClean == cleanForMatch(vals[i].name)
                      IN nClean # <<>> /\ rClean # <<>> /\ Includes(rClean, nClean)}
       IN IF hits = {} THEN Undefined
          ELSE vals[CHOOSE i \in hits : \A j \in hits : i <= j]

\* DetailPanel: selectedNode?.name (<<>> when no node has the selected id)
SelectedName ==
  LET ns == {n \in NodesOf(modelGraph) : n.id = selectedLayerId}
  IN IF selectedLayerId = NoSelection \/ ns = {} THEN <<>>
     ELSE (CHOOSE n \in ns : TRUE).name

\* DetailPanel: record
DetailRecord ==
  IF selectedLayerId = NoSelection THEN Undefined
  ELSE resolveRecord(selectedLayerId, SelectedName, inferenceCache)

CacheInit ==
  /\ modelGraph = 1
  /\ isRunning = FALSE
  /\ inferenceCache = EmptyObj
  /\ layerOrder = <<>>
  /\ pending = EmptyObj
  /\ flushTimer = FALSE
  /\ inferenceTimeout = FALSE
  /\ wsOpen = TRUE
  /\ ws = <<>>
  /\ req = [r \in Runs |-> "none"]
  /\ stream = [r \in Runs |-> <<>>]
  /\ load = [l \in Loads |-> IF l = 1 THEN "done" ELSE "none"]
  /\ alert = "none"
  /\ runs = 0
  /\ received = <<>>
  /\ everVisible = {}
  /\ sentinelSeen = {}
  /\ timeoutRun = 0
  /\ selectedLayerId = NoSelection
  /\ storeOp = NoOp
  /\ HookInit
  /\ AugmentIdle
  /\ ExportIdle
  /\ PanelIdle
  /\ LayoutIdle
  /\ ShellIdle

cacheFrame ==
  UNCHANGED << modelGraph, isRunning, refVars, netVars, alert, runs, histVars,
               hookVars, augmentVars, exportVars, panelVars, layoutVars, shellVars >>

StoreAddToCache(k, r) ==
  /\ inferenceCache' = addToCache(inferenceCache, k, r)
  /\ storeOp' = [kind |-> "add", put |-> << <<k, r>> >>, had |-> {}]
  /\ UNCHANGED << layerOrder, selectedLayerId >>
  /\ cacheFrame

StoreAddToCacheBatch(batch) ==
  /\ inferenceCache' = addToCacheBatch(inferenceCache, batch)
  /\ storeOp' = [kind |-> "batch", put |-> batch, had |-> {}]
  /\ UNCHANGED << layerOrder, selectedLayerId >>
  /\ cacheFrame

StoreClearCache ==
  /\ inferenceCache' = clearCache
  /\ layerOrder' = <<>>
  /\ storeOp' = [kind |-> "clear", put |-> <<>>, had |-> ObjKeys(inferenceCache)]
  /\ UNCHANGED selectedLayerId
  /\ cacheFrame

\* GraphNode onSelect: setSelectedLayer(node.id)
SelectLayer(id) ==
  /\ \E n \in NodesOf(modelGraph) : n.id = id
  /\ selectedLayerId' = id
  /\ UNCHANGED << inferenceCache, layerOrder, storeOp >>
  /\ cacheFrame

CacheNext ==
  \/ \E k \in StoreKeys, r \in StoreRecords : StoreAddToCache(k, r)
  \/ \E b \in StoreBatches : StoreAddToCacheBatch(b)
  \/ StoreClearCache
  \/ \E id \in NodeIds : SelectLayer(id)

CacheSpec == CacheInit /\ [][CacheNext]_vars

NameMatchesEitherWay(r, name) ==
  LET rClean == cleanForMatch(r.name)
      nClean == cleanForMatch(LastSegment(name))
  IN Includes(rClean, nClean) \/ Includes(nClean, rClean)

\* rule 3 as amended: the record's normalized display name contains the
\* normalized last segment of the node's name, neither being empty
NameContains(r, name) ==
  LET rClean == cleanForMatch(r.name)
      nClean == cleanForMatch(LastSegment(name))
  IN rClean # <<>> /\ nClean # <<>> /\ Includes(rClean, nClean)

\* rec is what the three rules, in order, allow for a node with this id and name
Resolves(rec, id, name, Rule3(_, _)) ==
  IF ObjHas(inferenceCache, id) THEN rec = ObjGet(inferenceCache, id)
  ELSE IF ObjHas(inferenceCache, Sanitize(id))
    THEN rec = ObjGet(inferenceCache, Sanitize(id))
  ELSE IF \E r \in RecordsIn(inferenceCache) : Rule3(r, name)
    THEN rec \in RecordsIn(inferenceCache) /\ Rule3(rec, name)
  ELSE rec = Undefined

\* C10 (as claimed): resolution is exact id, else sanitized id, else a record
\* whose normalized display name contains, or is contained in, the normalized
\* last segment of the node's name, else none.
C10_ResolutionEitherWay ==
  /\ \A n \in NodesOf(modelGraph) :
       Resolves(resolveRecord(n.id, n.name, inferenceCache), n.id, n.name,
                NameMatchesEitherWay)
  /\ selectedLayerId # NoSelection =>
       Resolves(DetailRecord, selectedLayerId, SelectedName, NameMatchesEitherWay)

\* C10 (amended): resolution is exact id, else sanitized id, else a record
\* whose non-empty normalized display name contains the non-empty normalized
\* last segment of the node's name, else none; never a record matching by
\* none of the three rules.
C10_ResolutionOrder ==
  /\ \A n \in NodesOf(modelGraph) :
       Resolves(resolveRecord(n.id, n.name, inferenceCache), n.id, n.name,
                NameContains)
  /\ selectedLayerId # NoSelection =>
       Resolves(DetailRecord, selectedLayerId, SelectedName, NameContains)

\* C10 witness: the selected node resolves by its name only, while the node
\* with the dotted id resolves by its sanitized id to another record.
C10_Witness ==
  /\ selectedLayerId = NodeShort.id
  /\ ~ObjHas(inferenceCache, selectedLayerId)
  /\ DetailRecord # Undefined
  /\ ~ObjHas(inferenceCache, IdDotted)
  /\ ObjHas(inferenceCache, IdPlain)
  /\ resolveRecord(IdDotted, NodeDotted.name, inferenceCache) # DetailRecord

\* the orders in which the entries of object o can have been stored
StoreOrders(o) ==
  {f \in [1..Len(o) -> 1..Len(o)] : \A i, j \in 1..Len(o) : f[i] = f[j] => i = j}

RECURSIVE StoredInOrder(_, _, _)
\* the object that holds the entries of o when they are stored in the order f,
\* from the i-th on
StoredInOrder(o, f, i) ==
  IF i = 0 THEN EmptyObj
  ELSE ObjSet(StoredInOrder(o, f, i - 1), o[f[i]][1], o[f[i]][2])

\* the first record, in the property order of o, that the name rule accepts
FirstNameMatch(o, name) ==
  LET hits == {i \in 1..Len(o) : NameContains(o[i][2], name)}
  IN IF hits = {} THEN Undefined
     ELSE o[CHOOSE i \in hits : \A j \in hits : i <= j][2]

\* the objects that hold the entries of o, stored in any order
Restored(o) == {StoredInOrder(o, f, Len(o)) : f \in StoreOrders(o)}

C12_ConvSanitizedMatch ==
  LET r == ObjGet(inferenceCache, IdConv)
  IN (ObjHas(inferenceCache, IdConv) /\ r.layer_id = IdConv) =>
       /\ Sanitize(IdConv) = Sanitize(NodeConv.id)
       /\ resolveRecord(IdConv, <<>>, inferenceCache) = r
       /\ resolveRecord(NodeConv.id, NodeConv.name, inferenceCache) = r

(***************************************************************************)
(* Failures and model loads.                                                *)
(***************************************************************************)
\* number of files chosen in LOAD MODEL so far
LoadsChosen == Cardinality({l \in Loads : load[l] # "none"})

\* the only run of the behaviour failed, its failure has been handled, every
\* frame it emitted has been delivered and merged, and nothing else happened:
\* one model load, the socket open throughout
FailedRunHandled ==
  /\ runs = 1 /\ req[1] = "failed" /\ alert = "none" /\ ~isRunning
  /\ LoadsChosen = 1
  /\ wsOpen /\ ws = <<>> /\ pending = EmptyObj

\* C13: when a run fails after k-1 of its operations have emitted their
\* records, exactly these k-1 records are retained in the cache once the
\* failure has been handled, and none for a later operation.
C13_PartialResultsKept ==
  FailedRunHandled =>
    Idents(inferenceCache) = {<<1, i>> : i \in 1..Len(RecsOf(stream[1]))}

\* C14: once the failure of a run that emitted no record has been handled,
\* inferenceCache and layerOrder are empty and isRunning is false.
C14_NothingCachedOnEarlyFailure ==
  \A r \in Runs :
    (req[r] = "failed" /\ RecsOf(stream[r]) = <<>> /\ runs = r /\ alert = "none")
      => inferenceCache = EmptyObj /\ layerOrder = <<>> /\ ~isRunning

\* C15: once a file has been chosen in LOAD MODEL, inferenceCache never again
\* holds a record of a run that was started before the file was chosen.
C15_LoadClearsPreviousRuns ==
  \A l \in Loads : \A n \in 0..MaxClicks :
    []((load[l] = "none" /\ runs = n) =>
         [](load[l] # "none" => \A a \in RecordsIn(inferenceCache) : a.run > n))

\* some request has been answered and its response is not yet handled
Answered == \E r \in Runs : req[r] \in {"ok", "err"}

\* C16: whenever the /run-inference request of a started run has been
\* answered, eventually every answered request has been handled, isRunning is
\* false and Run inference is enabled again.
C16_ReturnsToIdle == Answered ~> (~Answered /\ canRun)

\* C16 witness: a run has failed, its alert has been dismissed and the app is
\* idle, with its records still arriving.
C16_Witness ==
  \E r \in Runs : req[r] = "failed" /\ alert = "none" /\ canRun /\ ws # <<>>

(***************************************************************************)
(* The Execution Adapter in hook-based mode (specification section 4.2):   *)
(* before executing, a capture callback is registered on every leaf        *)
(* submodule; each callback fires when its submodule has computed its      *)
(* output; after the forward computation, also on failure, all registered  *)
(* callbacks are deregistered.                                              *)
(***************************************************************************)
Leaves == 1..MaxLeaves

\* the frontend state, which the engine does not touch
hookFrame ==
  UNCHANGED << storeVars, refVars, netVars, alert, runs, histVars,
               selectedLayerId, storeOp, augmentVars, exportVars, panelVars, layoutVars, shellVars >>

\* a run starts: register a callback on every leaf, then execute
HookRunStart ==
  /\ forward = "idle"
  /\ hookRun < MaxHookRuns
  /\ hookRun' = hookRun + 1
  /\ callbacks' = callbacks \cup {<<hookRun + 1, m>> : m \in Leaves}
  /\ forward' = "running"
  /\ executed' = 0
  /\ UNCHANGED fired
  /\ hookFrame

\* the next leaf computes its output: every callback registered on it fires
HookLeafExecute ==
  /\ forward = "running"
  /\ executed < MaxLeaves
  /\ executed' = executed + 1
  /\ fired' = fired \cup {<<cb, hookRun>> : cb \in {c \in callbacks : c[2] = executed + 1}}
  /\ UNCHANGED << callbacks, forward, hookRun >>
  /\ hookFrame

\* the full forward computation completes: deregister all callbacks
HookForwardComplete ==
  /\ forward = "running"
  /\ executed = MaxLeaves
  /\ callbacks' = {}
  /\ forward' = "idle"
  /\ UNCHANGED << hookRun, executed, fired >>
  /\ hookFrame

\* an adapter that forgets to deregister when the forward computation fails
HookForwardFailLeaks ==
  /\ forward = "running"
  /\ executed < MaxLeaves
  /\ forward' = "idle"
  /\ UNCHANGED << callbacks, hookRun, executed, fired >>
  /\ hookFrame

\* the next leaf throws (ExecutionError): deregister all callbacks
HookForwardFail ==
  /\ forward = "running"
  /\ executed < MaxLeaves
  /\ callbacks' = {}
  /\ forward' = "idle"
  /\ UNCHANGED << hookRun, executed, fired >>
  /\ hookFrame

HookNext ==
  \/ HookRunStart
  \/ HookLeafExecute
  \/ HookForwardComplete
  \/ HookForwardFail

HookSpec == Init /\ [][HookNext]_vars

\* C17: whenever no forward computation is in progress no capture callback is
\* registered, whether the last run completed or failed part-way, and a
\* callback only ever fires in the run that registered it.
C17_NoCaptureStateLeft ==
  /\ forward = "idle" => callbacks = {}
  /\ \A f \in fired : f[1][1] = f[2]

\* C17 witness: a run failed part-way and a later run has fired callbacks.
C17_Witness ==
  /\ forward = "idle"
  /\ hookRun > 1
  /\ \E f \in fired : f[2] = 1
  /\ \E f \in fired : f[2] = hookRun
  /\ ~\E f \in fired : f[2] = 1 /\ f[1][2] = MaxLeaves

(***************************************************************************)
(* The Graph Augmenter (specification section 4.1): collect the operation  *)
(* output names not already in the declared-output list, append an output  *)
(* declaration for each, run shape inference, return the augmented graph   *)
(* and the newly exposed names in declaration order.                        *)
(***************************************************************************)
ValueNames == {"x", "y", "z"}

Range(q) == {q[i] : i \in 1..Len(q)}

\* sequences over S of length lo..hi
SeqsOf(S, lo, hi) == UNION {[1..k -> S] : k \in lo..hi}

\* sequences without repetition
Distinct(q) == \A i, j \in 1..Len(q) : q[i] = q[j] => i = j

RECURSIVE Flatten(_)
\* the output names of the operations, in declaration order
Flatten(ops) == IF ops = <<>> THEN <<>> ELSE Head(ops) \o Flatten(Tail(ops))

\* a serialized graph: node[i] is the output list of operation i, output the
\* declared outputs, noShape the names whose shape cannot be inferred
OnnxGraphs ==
  [node : SeqsOf(SeqsOf(ValueNames, 1, 2), 0, MaxOps),
   output : {q \in SeqsOf(ValueNames, 0, 2) : Distinct(q)},
   noShape : {{}} \cup {{v} : v \in ValueNames}]

\* syntactically valid: every value is the output of at most one operation
ValidGraph(g) == Distinct(Flatten(g.node))

\* an augmenter that exposes every operation output, declared or not
ExposedNamesAll(names, declared) == names

RECURSIVE ExposedNames(_, _)
\* the operation output names not already present in the declared-output list
ExposedNames(names, declared) ==
  IF names = <<>> THEN <<>>
  ELSE IF Head(names) \in Range(declared)
         THEN ExposedNames(Tail(names), declared)
         ELSE <<Head(names)>> \o ExposedNames(Tail(names), declared \o <<Head(names)>>)

\* the augmented graph's output list, the newly exposed names and the names
\* that got declaredOutputShape metadata (a non-inferable one is skipped)
Augment(g) ==
  LET exposed == ExposedNames(Flatten(g.node), g.output)
  IN [status |-> "ok",
      output |-> g.output \o exposed,
      exposed |-> exposed,
      declaredOutputShape |-> Range(exposed) \ g.noShape]

GraphAugmentationError == [NoAugment EXCEPT !.status = "GraphAugmentationError"]

augmentFrame ==
  UNCHANGED << storeVars, refVars, netVars, alert, runs, histVars,
               selectedLayerId, storeOp, hookVars, exportVars, panelVars, layoutVars, shellVars >>

AugmentInit ==
  /\ AppInit
  /\ HookInit
  /\ ExportIdle
  /\ PanelIdle
  /\ LayoutIdle
  /\ ShellIdle
  /\ onnxGraph \in OnnxGraphs
  /\ augmented = NoAugment

AugmentGraph ==
  /\ augmented = NoAugment
  /\ ValidGraph(onnxGraph)
  /\ augmented' = Augment(onnxGraph)
  /\ UNCHANGED onnxGraph
  /\ augmentFrame

\* the graph is not valid: the caller falls back to the declared outputs
AugmentFail ==
  /\ augmented = NoAugment
  /\ ~ValidGraph(onnxGraph)
  /\ augmented' = GraphAugmentationError
  /\ UNCHANGED onnxGraph
  /\ augmentFrame

AugmentNext ==
  \/ AugmentGraph
  \/ AugmentFail

AugmentSpec == AugmentInit /\ [][AugmentNext]_vars

Augmented == augmented.status = "ok"

\* position of the first occurrence of v in q
FirstAt(q, v) == CHOOSE i \in 1..Len(q) : q[i] = v /\ \A j \in 1..(i - 1) : q[j] # v

\* C18: the augmented output list contains every operation output name and
\* every originally declared output, each exactly once, and nothing else; the
\* newly exposed names are the added ones, in declaration order.
C18_AugmentationComplete ==
  Augmented =>
    LET names == Flatten(onnxGraph.node)
        wanted == Range(names) \cup Range(onnxGraph.output)
    IN /\ \A v \in wanted :
            Cardinality({i \in 1..Len(augmented.output) : augmented.output[i] = v}) = 1
       /\ Range(augmented.output) \subseteq wanted
       /\ Range(augmented.exposed) = Range(names) \ Range(onnxGraph.output)
       /\ \A i, j \in 1..Len(augmented.exposed) :
            i < j => FirstAt(names, augmented.exposed[i]) < FirstAt(names, augmented.exposed[j])

\* C18 witness: a graph with an operation output that is already declared and
\* two that are not has been augmented.
C18_Witness ==
  /\ Augmented
  /\ Range(Flatten(onnxGraph.node)) \cap Range(onnxGraph.output) # {}
  /\ Len(augmented.exposed) = 2
  /\ onnxGraph.noShape \cap Range(augmented.exposed) # {}

(***************************************************************************)
(* The Persistence Layer's exportRecord (specification section 4.5): the   *)
(* complete tensor in plain text, row-major, one value per line.  A tensor *)
(* is a nested list with its shape; a value is a number of tenths.         *)
(***************************************************************************)
ValueList == <<15, 25, 35, 45, -5>>

Shapes == SeqsOf(0..MaxDim, 0, MaxRank)

RECURSIVE Product(_)
Product(shape) == IF shape = <<>> THEN 1 ELSE Head(shape) * Product(Tail(shape))

RECURSIVE Nested(_, _)
\* the nested list of the given shape whose element at row-major position p
\* (from 0) is the value at position first + p of the repeated ValueList
Nested(shape, first) ==
  IF shape = <<>> THEN ValueList[(first % Len(ValueList)) + 1]
  ELSE [i \in 1..Head(shape) |-> Nested(Tail(shape), first + (i - 1) * Product(Tail(shape)))]

\* the tensor of shape sh whose first element is ValueList[k + 1]
Tensor(sh, k) == [shape |-> sh, data |-> Nested(sh, k)]

DigitChars == <<"0", "1", "2", "3", "4", "5", "6", "7", "8", "9">>

\* the text of a value: sign, integer part, ".", one decimal
FormatValue(v) ==
  LET a == IF v < 0 THEN 0 - v ELSE v
      digits == <<DigitChars[(a \div 10) + 1], ".", DigitChars[(a % 10) + 1]>>
  IN IF v < 0 THEN <<"-">> \o digits ELSE digits

RECURSIVE Concat(_)
Concat(qs) == IF qs = <<>> THEN <<>> ELSE Head(qs) \o Concat(Tail(qs))

RECURSIVE RowMajor(_, _)
\* the elements of a nested list, the last index varying fastest
RowMajor(data, shape) ==
  IF shape = <<>> THEN <<data>>
  ELSE Concat([i \in 1..Head(shape) |-> RowMajor(data[i], Tail(shape))])

\* an export that stops after three values
TensorLinesTruncated(t) ==
  LET flat == RowMajor(t.data, t.shape)
  IN [i \in 1..(IF Len(flat) < 3 THEN Len(flat) ELSE 3) |-> FormatValue(flat[i])]

\* the lines exportRecord writes for a tensor: one value per line
TensorLines(t) ==
  LET flat == RowMajor(t.data, t.shape)
  IN [i \in 1..Len(flat) |-> FormatValue(flat[i])]

exportFrame ==
  UNCHANGED << storeVars, refVars, netVars, alert, runs, histVars,
               selectedLayerId, storeOp, hookVars, augmentVars, panelVars, layoutVars, shellVars >>

ExportInit ==
  /\ AppInit
  /\ HookInit
  /\ AugmentIdle
  /\ PanelIdle
  /\ LayoutIdle
  /\ ShellIdle
  /\ \E sh \in Shapes, k \in 0..(Len(ValueList) - 1) : tensor = Tensor(sh, k)
  /\ exportLines = <<>>

\* exportRecord(key, destination), seen from the destination
ExportRecord ==
  /\ exportLines = <<>>
  /\ exportLines' = TensorLines(tensor)
  /\ UNCHANGED tensor
  /\ exportFrame

ExportNext == ExportRecord

ExportSpec == ExportInit /\ [][ExportNext]_vars

\* the multi-indices of a shape
Indices(shape) == {ix \in [1..Len(shape) -> 1..MaxDim + 1] : \A d \in 1..Len(shape) : ix[d] <= shape[d]}

RECURSIVE ElementAt(_, _)
\* data[ix[1]][ix[2]]...
ElementAt(data, ix) == IF ix = <<>> THEN data ELSE ElementAt(data[Head(ix)], Tail(ix))

RECURSIVE LineOf(_, _)
\* the line (from 0) of the element at ix when the last index varies fastest
LineOf(ix, shape) ==
  IF ix = <<>> THEN 0
  ELSE (Head(ix) - 1) * Product(Tail(shape)) + LineOf(Tail(ix), Tail(shape))

DigitOf(c) == CHOOSE d \in 0..9 : DigitChars[d + 1] = c

\* the number a line of the file reads as
ParseLine(line) ==
  IF Head(line) = "-" THEN 0 - (10 * DigitOf(line[2]) + DigitOf(line[4]))
  ELSE 10 * DigitOf(line[1]) + DigitOf(line[3])

Missing == <<"undefined">>

\* what a node's type or name can be: 'Conv', 'm.conv', 'Attention',
\* 'EMBED_1', 'Relu', 'Attn', or absent
NodeTexts ==
  {<<"C", "o", "n", "v">>,
   <<"m", ".", "c", "o", "n", "v">>,
   <<"A", "t", "t", "e", "n", "t", "i", "o", "n">>,
   <<"E", "M", "B", "E", "D", "_", "1">>,
   <<"R", "e", "l", "u">>,
   <<"A", "t", "t", "n">>,
   Missing}

PanelNode == [type : NodeTexts, name : NodeTexts]

\* what modelGraph?.nodes can be: undefined, null, an object that is not an
\* array, or an array of nodes
PanelNodeLists ==
  {[kind |-> k, items |-> <<>>] : k \in {"undefined", "null", "object"}}
    \cup {[kind |-> "array", items |-> q] : q \in SeqsOf(PanelNode, 0, MaxNodes)}

UpperCase ==
  <<"A", "B", "C", "D", "E", "F", "G", "H", "I", "J", "K", "L", "M",
    "N", "O", "P", "Q", "R", "S", "T", "U", "V", "W", "X", "Y", "Z">>
LowerCase ==
  <<"a", "b", "c", "d", "e", "f", "g", "h", "i", "j", "k", "l", "m",
    "n", "o", "p", "q", "r", "s", "t", "u", "v", "w", "x", "y", "z">>

\* String.prototype.toLowerCase, one character
LowerOf(c) ==
  IF \E i \in 1..26 : UpperCase[i] = c
    THEN LowerCase[CHOOSE i \in 1..26 : UpperCase[i] = c]
    ELSE c

\* String.prototype.toLowerCase
toLowerCase(str) == [i \in 1..Len(str) |-> LowerOf(str[i])]

\* n.type?.toLowerCase().includes(word)
LowerIncludes(text, word) ==
  /\ text # Missing
  /\ Includes(toLowerCase(text), word)

WordConv == <<"c", "o", "n", "v">>
WordAttention == <<"a", "t", "t", "e", "n", "t", "i", "o", "n">>
WordEmbed == <<"e", "m", "b", "e", "d">>

\* a detectInputType that looks for attention and embed before conv
detectInputTypeTextFirst(nodes) ==
  IF nodes.kind \in {"undefined", "null"} \/ nodes.kind # "array" THEN "tensor"
  ELSE IF \E i \in 1..Len(nodes.items) :
            \E w \in {WordAttention, WordEmbed} :
              \/ LowerIncludes(nodes.items[i].type, w)
              \/ LowerIncludes(nodes.items[i].name, w)
         THEN "text"
         ELSE IF \E i \in 1..Len(nodes.items) :
                   \/ LowerIncludes(nodes.items[i].type, WordConv)
                   \/ LowerIncludes(nodes.items[i].name, WordConv)
                THEN "image"
                ELSE "tensor"

detectInputType(nodes) ==
  IF nodes.kind \in {"undefined", "null"} \/ nodes.kind # "array" THEN "tensor"
  ELSE LET isVision ==
             \E i \in 1..Len(nodes.items) :
               \/ LowerIncludes(nodes.items[i].type, WordConv)
               \/ LowerIncludes(nodes.items[i].name, WordConv)
           isNLP ==
             \E i \in 1..Len(nodes.items) :
               \/ LowerIncludes(nodes.items[i].type, WordAttention)
               \/ LowerIncludes(nodes.items[i].type, WordEmbed)
               \/ LowerIncludes(nodes.items[i].name, WordAttention)
               \/ LowerIncludes(nodes.items[i].name, WordEmbed)
       IN IF isVision THEN "image" ELSE IF isNLP THEN "text" ELSE "tensor"

panelFrame ==
  UNCHANGED << storeVars, refVars, netVars, alert, runs, histVars,
               selectedLayerId, storeOp, hookVars, augmentVars, exportVars, layoutVars, shellVars >>

PanelInit ==
  /\ AppInit
  /\ HookInit
  /\ AugmentIdle
  /\ ExportIdle
  /\ LayoutIdle
  /\ ShellIdle
  /\ panelNodes \in PanelNodeLists
  /\ inputType = NotYet

\* InputPanel renders: useMemo(() => detectInputType(modelGraph?.nodes))
RenderInputPanel ==
  /\ inputType = NotYet
  /\ inputType' = detectInputType(panelNodes)
  /\ UNCHANGED panelNodes
  /\ panelFrame

PanelNext == RenderInputPanel

PanelSpec == PanelInit /\ [][PanelNext]_vars

\* text contains word, whatever the case of its letters
ContainsAnyCase(text, word) ==
  /\ text # Missing
  /\ \E at \in 0..(Len(text) - Len(word)) :
       \A j \in 1..Len(word) :
         \/ text[at + j] = word[j]
         \/ \E i \in 1..26 : text[at + j] = UpperCase[i] /\ word[j] = LowerCase[i]

\* some node's type or name contains word
SomeNodeHas(word) ==
  /\ panelNodes.kind = "array"
  /\ \E i \in 1..Len(panelNodes.items) :
       \/ ContainsAnyCase(panelNodes.items[i].type, word)
       \/ ContainsAnyCase(panelNodes.items[i].name, word)

RequestsSent == {r \in Runs : req[r] # "none"}

\* C21: while runInference may not run (no model, or isRunning) no
\* /run-inference request is sent; the step that shows the empty-input alert
\* leaves isRunning, inferenceCache and layerOrder unchanged and sends no
\* request; and with a model loaded and isRunning false a run can be started.
C21_RunInferenceNoOp ==
  /\ []((canRun /\ alert = "none" /\ Clicks < MaxClicks)
          => ENABLED (RunInference(FALSE) /\ runs' = runs + 1))
  /\ [][/\ ~canRun => (RequestsSent' = RequestsSent /\ runs' = runs)
        /\ (alert = "none" /\ alert' = "no_input")
             => UNCHANGED << isRunning, inferenceCache, layerOrder, req, runs >>]_vars

\* C21 witness: the empty-input alert is on screen over a cache that holds
\* records and a layer order that is set.
C21_Witness ==
  /\ alert = "no_input"
  /\ inferenceCache # EmptyObj
  /\ layerOrder # <<>>

\* C22: isRunning is set only by the start of a run, which clears the cache,
\* and is cleared only by the step that receives the run's terminal sentinel or
\* by the firing of the run-level timeout.
C22_RunningFlagLifecycle ==
  [][/\ (~isRunning /\ isRunning') => (runs' = runs + 1 /\ inferenceCache' = EmptyObj)
     /\ (isRunning /\ ~isRunning')
          => \/ runs \in sentinelSeen' \ sentinelSeen
             \/ alert = "none" /\ alert' = "timeout"]_vars

\* the entries <<key, record>> of a JS object
EntriesOf(o) == {o[i] : i \in 1..Len(o)}

\* C23 (as stated): while the pending batch is non-empty a flush timer is
\* armed, and no received record leaves the pending batch without being
\* merged into inferenceCache by that step.
C23_NoRecordLeavesUnmerged ==
  /\ [](pending # EmptyObj => flushTimer)
  /\ [][Idents(pending) \ Idents(pending') \subseteq Idents(inferenceCache')]_vars

\* C23 (amended): while the pending batch is non-empty a flush timer is armed;
\* a step that changes the pending batch either stores a record, keeping every
\* key, or empties the batch with every one of its entries merged into
\* inferenceCache under its key.
C23_BatchMergedWhole ==
  /\ [](pending # EmptyObj => flushTimer)
  /\ [][\/ ObjKeys(pending) \subseteq ObjKeys(pending') /\ received' # received
        \/ /\ pending' = EmptyObj
           /\ ~flushTimer'
           /\ EntriesOf(pending) \subseteq EntriesOf(inferenceCache')]_<<pending>>

\* C23 witness: a batch of two records has been merged by the timer or the
\* sentinel and nothing is pending.
C23_Witness ==
  /\ pending = EmptyObj
  /\ ~flushTimer
  /\ Cardinality(Idents(inferenceCache)) >= 2
  /\ Len(received) = 2

\* C24: layerOrder is only ever set by the response of the current run: the
\* response of a run does not set layerOrder once a later run has been started.
C24_LayerOrderOfCurrentRun ==
  [][\A r \in Runs :
       (req[r] = "ok" /\ req'[r] = "settled" /\ layerOrder' # <<>>) => r = runs]_vars

\* C25: the run-level timeout is armed at most once per run: once the timer
\* armed by a record of run r has fired or been cleared, no timer is armed by
\* a record of run r again.
C25_TimeoutArmedOncePerRun ==
  \A r \in Runs :
    []((inferenceTimeout /\ timeoutRun = r)
         => [](~inferenceTimeout => [](timeoutRun # r)))

\* C26: a record that becomes visible in inferenceCache is there under its raw
\* key and under its sanitized alias at once, and a step that adds to
\* inferenceCache adds the whole pending batch.
C26_KeysVisibleTogether ==
  [][/\ \A rec \in RecordsIn(inferenceCache') \ RecordsIn(inferenceCache) :
          /\ ObjGet(inferenceCache', RawKey(rec)) = rec
          /\ Sanitize(rec.layer_id) # <<>>
               => ObjGet(inferenceCache', Sanitize(rec.layer_id)) = rec
     /\ (inferenceCache' # inferenceCache /\ inferenceCache' # EmptyObj)
          => EntriesOf(pending) \subseteq EntriesOf(inferenceCache')]_vars

\* C27: choosing a file clears inferenceCache and layerOrder and leaves
\* modelGraph alone; the step that reports a failed load leaves modelGraph,
\* inferenceCache and layerOrder as they are; a loaded model is never replaced
\* by null, and modelGraph is always the graph of a load that was answered.
C27_LoadFailureKeepsModel ==
  /\ [](modelGraph # 0 => load[modelGraph] = "done")
  /\ [][/\ (\E l \in Loads : load[l] = "none" /\ load'[l] = "pending")
             => (inferenceCache' = EmptyObj /\ layerOrder' = <<>> /\ modelGraph' = modelGraph)
        /\ (alert = "none" /\ alert' = "load_failed")
             => UNCHANGED << modelGraph, inferenceCache, layerOrder >>
        /\ modelGraph # 0 => modelGraph' # 0]_vars

\* C27 witness: with the first model loaded, a second load has failed; its
\* alert is on screen and the first model is still the loaded one.
C27_Witness ==
  /\ alert = "load_failed"
  /\ modelGraph = 1
  /\ load[2] = "done"

AllNodeIds == <<"a", "b", "c", "d", "e">>

\* the ids an edge can name: every possible node id and an unknown one
EdgeIds == {AllNodeIds[i] : i \in 1..MaxLayoutNodes} \cup {"x"}

LayoutGraphs ==
  [nodes : {SubSeq(AllNodeIds, 1, k) : k \in 0..MaxLayoutNodes},
   edges : SeqsOf([from : EdgeIds, to : EdgeIds], 0, MaxEdges)]

\* GraphView.jsx 10-14: inDegree.get(id) after the edges.forEach
inDegree(g, id) == Cardinality({i \in 1..Len(g.edges) : g.edges[i].to = id})

\* a layout that starts the search from every node
layoutRootsAll(g) == g.nodes

\* GraphView.jsx 15: nodes.filter((n) => inDegree.get(n.id) === 0).map((n) => n.id)
layoutRoots(g) == SelectSeq(g.nodes, LAMBDA id : inDegree(g, id) = 0)

RECURSIVE ScanEdges(_, _, _, _, _)
\* GraphView.jsx 21-27: edges.forEach over the edges that leave id; gives
\* visited and queue afterwards
ScanEdges(es, id, depth, vis, q) ==
  IF es = <<>> THEN [visited |-> vis, queue |-> q]
  ELSE LET e == Head(es)
       IN IF e.from = id /\ e.to \notin vis
            THEN ScanEdges(Tail(es), id, depth, vis \cup {e.to},
                           Append(q, [id |-> e.to, depth |-> depth + 1]))
            ELSE ScanEdges(Tail(es), id, depth, vis, q)

\* GraphView.jsx 30-35: the ids at depth d, in the order of nodeMap
AtDepth(g, depths, d) == SelectSeq(g.nodes, LAMBDA id : depths[id] = d)

\* index from 0 of id in the list ids
IndexIn(ids, id) == (CHOOSE i \in 1..Len(ids) : ids[i] = id) - 1

\* GraphView.jsx 38-54: positions[id] = [startX + i * spacing, y, depth * -4]
positionOf(g, depths, id) ==
  LET depth == depths[id]
      ids == AtDepth(g, depths, depth)
      n == Len(ids)
      i == IndexIn(ids, id)
      spacing == IF 50 > n * 24 THEN 50 ELSE n * 24
      startX == 0 - (((n - 1) * spacing) \div 2)
      childCount == Cardinality({k \in 1..Len(g.edges) : g.edges[k].from = id})
      y == IF childCount > 1 THEN (2 * i - (n - 1)) * 15 ELSE 0
  IN <<startX + i * spacing, y, depth * (0 - 80)>>

layoutFrame ==
  UNCHANGED << storeVars, refVars, netVars, alert, runs, histVars,
               selectedLayerId, storeOp, hookVars, augmentVars, exportVars, panelVars, shellVars >>

\* GraphView calls buildLayout(nodes, edges)
LayoutInit ==
  /\ AppInit
  /\ HookInit
  /\ AugmentIdle
  /\ ExportIdle
  /\ PanelIdle
  /\ ShellIdle
  /\ layoutGraph \in LayoutGraphs
  /\ queue = <<>>
  /\ visited = {}
  /\ nodeMap = [id \in {} |-> 0]
  /\ positions = [id \in {} |-> <<0, 0, 0>>]
  /\ layoutPc = "start"

\* GraphView.jsx 9-17: nodeMap, inDegree, roots, queue, visited
LayoutStart ==
  /\ layoutPc = "start"
  /\ LET roots == layoutRoots(layoutGraph)
     IN /\ queue' = [i \in 1..Len(roots) |-> [id |-> roots[i], depth |-> 0]]
        /\ visited' = Range(roots)
  /\ nodeMap' = [id \in Range(layoutGraph.nodes) |-> 0]
  /\ layoutPc' = "bfs"
  /\ UNCHANGED << layoutGraph, positions >>
  /\ layoutFrame

\* GraphView.jsx 18-28: one iteration of while (queue.length)
LayoutDequeue ==
  /\ layoutPc = "bfs"
  /\ queue # <<>>
  /\ LET item == Head(queue)
         after == ScanEdges(layoutGraph.edges, item.id, item.depth, visited, Tail(queue))
     IN /\ nodeMap' = IF item.id \in DOMAIN nodeMap
                        THEN [nodeMap EXCEPT ![item.id] = item.depth]
                        ELSE nodeMap
        /\ visited' = after.visited
        /\ queue' = after.queue
  /\ UNCHANGED << layoutGraph, positions, layoutPc >>
  /\ layoutFrame

\* GraphView.jsx 29-56: the loop has ended; byDepth, positions, return
LayoutPositions ==
  /\ layoutPc = "bfs"
  /\ queue = <<>>
  /\ positions' = [id \in DOMAIN nodeMap |-> positionOf(layoutGraph, nodeMap, id)]
  /\ layoutPc' = "done"
  /\ UNCHANGED << layoutGraph, queue, visited, nodeMap >>
  /\ layoutFrame

LayoutNext ==
  \/ LayoutStart
  \/ LayoutDequeue
  \/ LayoutPositions

\* the call runs to its end: nothing else runs on the renderer's thread
LayoutSpec == LayoutInit /\ [][LayoutNext]_vars /\ WF_vars(LayoutNext)

\* the nodes that no edge points to
InDegreeZero == {id \in Range(layoutGraph.nodes) : \A i \in 1..Len(layoutGraph.edges) : layoutGraph.edges[i].to # id}

RECURSIVE WithinSteps(_)
\* the ids that a path of at most k edges reaches from a root
WithinSteps(k) ==
  IF k = 0 THEN InDegreeZero
  ELSE LET near == WithinSteps(k - 1)
       IN near \cup {layoutGraph.edges[i].to :
                       i \in {j \in 1..Len(layoutGraph.edges) : layoutGraph.edges[j].from \in near}}

\* the length of the shortest path from a root to id, 0 when there is none
ShortestFromRoot(id) ==
  LET far == Len(layoutGraph.edges)
  IN IF id \in WithinSteps(far)
       THEN CHOOSE k \in 0..far : id \in WithinSteps(k) /\ \A j \in 0..(k - 1) : id \notin WithinSteps(j)
       ELSE 0

LayoutDone ==
  /\ layoutPc = "done"
  /\ DOMAIN positions = Range(layoutGraph.nodes)
  /\ \A id \in Range(layoutGraph.nodes) :
       /\ nodeMap[id] = ShortestFromRoot(id)
       /\ positions[id][3] = nodeMap[id] * (0 - 80)

\* C29: every call of buildLayout ends, with a position for every node and, as
\* depth of a node, the length of its shortest path from a node of in-degree 0
\* (0 when no such node reaches it), cycles and edges naming unknown nodes
\* included.
C29_LayoutTerminates ==
  /\ [](layoutPc = "done" => LayoutDone)
  /\ <>(layoutPc = "done")

\* C29 witness: a graph with a node that no root reaches, an edge that leaves
\* an unknown node and a node at depth 2 has been laid out.
C29_Witness ==
  /\ layoutPc = "done"
  /\ \E id \in DOMAIN nodeMap : nodeMap[id] = 2
  /\ \E i \in 1..Len(layoutGraph.edges) : layoutGraph.edges[i].from = "x"
  /\ \E id \in DOMAIN nodeMap : id \notin visited

(***************************************************************************)
(* main.js: the startup of the desktop shell (app.whenReady, startBackend). *)
(***************************************************************************)
\* what the machine offers: getPython311 finds a python; the venv exists
\* already; python -m venv succeeds; pip install succeeds; spawn succeeds
ShellEnvs ==
  [python : BOOLEAN, venvExists : BOOLEAN, venvCreated : BOOLEAN,
   pipOk : BOOLEAN, spawnOk : BOOLEAN]

\* main.js 36-51: setupVenv(python)
setupVenv(env) ==
  IF ~env.venvExists /\ ~env.venvCreated THEN FALSE ELSE env.pipOk

\* a startBackend that arms its timer only when the app is not packaged
startupTimerOnlyInDevelopment == FALSE

\* main.js 99: setTimeout(() => mainWindow.show(), 30000)
startupTimerArmed == TRUE

\* what a 'data' event of stdout can hold: no ready line, one of the two
\* ready lines, or a piece of a ready line split over two events
StdoutChunks == {"other", "Application startup complete", "Strata backend ready", "split"}

\* main.js 93: out.includes(...) || out.includes(...)
HasReadyLine(out) == out \in {"Application startup complete", "Strata backend ready"}

shellFrame ==
  UNCHANGED << storeVars, refVars, netVars, alert, runs, histVars,
               selectedLayerId, storeOp, hookVars, augmentVars, exportVars, panelVars,
               layoutVars >>

\* app.whenReady() has not resolved yet; the store of the renderer is as
\* constructed
ShellInit ==
  /\ AppInit
  /\ HookInit
  /\ AugmentIdle
  /\ ExportIdle
  /\ PanelIdle
  /\ LayoutIdle
  /\ shellEnv \in ShellEnvs
  /\ shellPc = "whenReady"
  /\ windowVisible = FALSE
  /\ startupTimer = FALSE
  /\ backendProcess = "null"
  /\ stdoutChunks = 0

\* main.js 124-126, 74-100: createWindow() with show: false, then
\* startBackend(mainWindow), which runs to its return (spawnSync blocks)
StartBackend ==
  /\ shellPc = "whenReady"
  /\ IF ~shellEnv.python
       THEN /\ shellPc' = "dialog"
            /\ UNCHANGED << windowVisible, startupTimer, backendProcess >>
       ELSE IF ~setupVenv(shellEnv)
         THEN /\ shellPc' = "no backend"
              /\ windowVisible' = TRUE
              /\ UNCHANGED << startupTimer, backendProcess >>
         ELSE /\ shellPc' = "spawned"
              /\ backendProcess' = IF shellEnv.spawnOk THEN "alive" ELSE "spawn error"
              /\ startupTimer' = startupTimerArmed
              /\ UNCHANGED windowVisible
  /\ UNCHANGED << shellEnv, stdoutChunks >>
  /\ shellFrame

\* main.js 68-71: the user answers the dialog; response 0 opens the download
\* page
DialogAnswered(response) ==
  /\ shellPc = "dialog"
  /\ shellPc' = IF response = 0 THEN "download page" ELSE "no backend"
  /\ windowVisible' = TRUE
  /\ UNCHANGED << shellEnv, startupTimer, backendProcess, stdoutChunks >>
  /\ shellFrame

\* main.js 90-96: backendProcess.stdout.on('data')
BackendStdout(out) ==
  /\ backendProcess = "alive"
  /\ stdoutChunks < MaxChunks
  /\ stdoutChunks' = stdoutChunks + 1
  /\ windowVisible' = (windowVisible \/ HasReadyLine(out))
  /\ UNCHANGED << shellEnv, shellPc, startupTimer, backendProcess >>
  /\ shellFrame

\* main.js 98: backendProcess.on('error')
BackendSpawnError ==
  /\ backendProcess = "spawn error"
  /\ backendProcess' = "errored"
  /\ windowVisible' = TRUE
  /\ UNCHANGED << shellEnv, shellPc, startupTimer, stdoutChunks >>
  /\ shellFrame

\* the backend process ends; main.js has no handler for it
BackendExit ==
  /\ backendProcess = "alive"
  /\ backendProcess' = "exited"
  /\ UNCHANGED << shellEnv, shellPc, windowVisible, startupTimer, stdoutChunks >>
  /\ shellFrame

\* main.js 99: the 30 s timer's callback
StartupTimerFire ==
  /\ startupTimer
  /\ startupTimer' = FALSE
  /\ windowVisible' = TRUE
  /\ UNCHANGED << shellEnv, shellPc, backendProcess, stdoutChunks >>
  /\ shellFrame

ShellNext ==
  \/ StartBackend
  \/ \E response \in {0, 1} : DialogAnswered(response)
  \/ \E out \in StdoutChunks : BackendStdout(out)
  \/ BackendSpawnError
  \/ BackendExit
  \/ StartupTimerFire

\* app.whenReady() resolves, the user answers the dialog, the event loop
\* delivers the spawn error and runs the timer; the backend is not obliged to
\* print anything
ShellSpec ==
  /\ ShellInit
  /\ [][ShellNext]_vars
  /\ WF_vars(StartBackend)
  /\ WF_vars(\E response \in {0, 1} : DialogAnswered(response))
  /\ WF_vars(BackendSpawnError)
  /\ WF_vars(StartupTimerFire)

=============================================================================
